---- MODULE Spec2Model ----
(***************************************************************************)
(* cloak_browser host process (src/main.rs): profile bootstrap, the IPC    *)
(* handler (profile_save, download_start), the download worker threads and *)
(* the window event loop.                                                  *)
(*                                                                         *)
(* Texts (file contents, IPC message bodies, serialized JSON) are          *)
(* sequences of atoms.  An atom is one structural character of JSON        *)
(* ( { } [ ] : , " \ space, a digit ), one of the literals true / false /  *)
(* null, the byte "<FF>" (not valid UTF-8), or a chunk of ordinary         *)
(* characters such as "tabs" or "about:blank".                             *)
(***************************************************************************)
EXTENDS Bags, FiniteSets, Integers, Sequences, TLC

----------------------------------------------------------------------------
(* serde_json::Value.  Every value is a record with the same fields so     *)
(* that any two values can be compared: t is the variant, n the number (or *)
(* 0/1 of a bool), s the characters of a string, a the elements of an      *)
(* array, m the members of an object in key order (serde_json's Map is a   *)
(* BTreeMap: sorted, one entry per key).                                   *)

JNull == [t |-> "null", n |-> 0, s |-> <<>>, a |-> <<>>, m |-> <<>>]

JBool(b) == [t |-> "bool", n |-> IF b THEN 1 ELSE 0, s |-> <<>>, a |-> <<>>, m |-> <<>>]

JNum(k) == [t |-> "num", n |-> k, s |-> <<>>, a |-> <<>>, m |-> <<>>]

JStr(str) == [t |-> "str", n |-> 0, s |-> str, a |-> <<>>, m |-> <<>>]

JArr(elems) == [t |-> "arr", n |-> 0, s |-> <<>>, a |-> elems, m |-> <<>>]

JObj(members) == [t |-> "obj", n |-> 0, s |-> <<>>, a |-> <<>>, m |-> members]

Member(key, val) == [k |-> key, v |-> val]

(* Byte order of the keys the model uses (BTreeMap<String, Value> order). *)
KeyOrder ==
  << <<"active">>, <<"bookmarks">>, <<"cmd">>, <<"file">>, <<"history">>,
     <<"payload">>, <<"tabs">>, <<"title">>, <<"url">> >>

KeyRank(key) == CHOOSE i \in 1..Len(KeyOrder) : KeyOrder[i] = key

(* Map::insert: replaces the value of an equal key, else inserts in order. *)
RECURSIVE MapInsert(_, _, _)
MapInsert(members, key, val) ==
  IF members = <<>> THEN << Member(key, val) >>
  ELSE IF Head(members).k = key THEN << Member(key, val) >> \o Tail(members)
  ELSE IF KeyRank(key) < KeyRank(Head(members).k)
       THEN << Member(key, val) >> \o members
  ELSE << Head(members) >> \o MapInsert(Tail(members), key, val)

(* Value::get(key): the member of an object, None for every other variant. *)
None == [t |-> "none", n |-> 0, s |-> <<>>, a |-> <<>>, m |-> <<>>]

RECURSIVE MapGet(_, _)
MapGet(members, key) ==
  IF members = <<>> THEN None
  ELSE IF Head(members).k = key THEN Head(members).v
  ELSE MapGet(Tail(members), key)

Get(v, key) == IF v.t = "obj" THEN MapGet(v.m, key) ELSE None

(* Option<&Value>::and_then(as_str): the characters if the value is a string. *)
IsStr(v) == v.t = "str"

----------------------------------------------------------------------------
(* serde_json::to_string / Value::to_string: compact JSON text.            *)

DigitChars == <<"0", "1", "2", "3", "4", "5", "6", "7", "8", "9">>

RECURSIVE Digits(_)
Digits(k) ==
  IF k < 10 THEN << DigitChars[k + 1] >>
  ELSE Digits(k \div 10) \o << DigitChars[(k % 10) + 1] >>

RECURSIVE Escape(_)
Escape(str) ==
  IF str = <<>> THEN <<>>
  ELSE IF Head(str) \in {"\"", "\\"}
       THEN <<"\\", Head(str)>> \o Escape(Tail(str))
  ELSE << Head(str) >> \o Escape(Tail(str))

Quote(str) == <<"\"">> \o Escape(str) \o <<"\"">>

RECURSIVE to_string(_), ElemsText(_), MembersText(_)
to_string(v) ==
  CASE v.t = "null" -> <<"null">>
    [] v.t = "bool" -> IF v.n = 1 THEN <<"true">> ELSE <<"false">>
    [] v.t = "num"  -> Digits(v.n)
    [] v.t = "str"  -> Quote(v.s)
    [] v.t = "arr"  -> <<"[">> \o ElemsText(v.a) \o <<"]">>
    [] v.t = "obj"  -> <<"{">> \o MembersText(v.m) \o <<"}">>

ElemsText(elems) ==
  IF elems = <<>> THEN <<>>
  ELSE IF Len(elems) = 1 THEN to_string(elems[1])
  ELSE to_string(elems[1]) \o <<",">> \o ElemsText(Tail(elems))

MembersText(members) ==
  IF members = <<>> THEN <<>>
  ELSE IF Len(members) = 1
       THEN Quote(members[1].k) \o <<":">> \o to_string(members[1].v)
  ELSE Quote(members[1].k) \o <<":">> \o to_string(members[1].v)
         \o <<",">> \o MembersText(Tail(members))

----------------------------------------------------------------------------
(* serde_json::from_str::<Value>: a recursive-descent parser.  A parse     *)
(* step returns [ok, val, pos]: pos is the index of the next unread atom.  *)

ParseFail == [ok |-> FALSE, val |-> JNull, pos |-> 0]

ParseOk(v, p) == [ok |-> TRUE, val |-> v, pos |-> p]

RECURSIVE SkipWs(_, _)
SkipWs(text, i) ==
  IF i <= Len(text) /\ text[i] = " " THEN SkipWs(text, i + 1) ELSE i

IsDigit(c) == \E d \in 1..10 : DigitChars[d] = c

DigitVal(c) == (CHOOSE d \in 1..10 : DigitChars[d] = c) - 1

(* The characters of a string up to its closing quote; i is past the       *)
(* opening quote.  The result's val holds the characters in field s.       *)
RECURSIVE ParseStrBody(_, _, _)
ParseStrBody(text, i, acc) ==
  IF i > Len(text) THEN ParseFail
  ELSE IF text[i] = "\"" THEN ParseOk(JStr(acc), i + 1)
  ELSE IF text[i] = "\\"
       THEN IF i + 1 <= Len(text) /\ text[i + 1] \in {"\"", "\\"}
            THEN ParseStrBody(text, i + 2, Append(acc, text[i + 1]))
            ELSE ParseFail
  ELSE ParseStrBody(text, i + 1, Append(acc, text[i]))

RECURSIVE ParseDigits(_, _, _)
ParseDigits(text, i, acc) ==
  IF i <= Len(text) /\ IsDigit(text[i])
  THEN ParseDigits(text, i + 1, acc * 10 + DigitVal(text[i]))
  ELSE ParseOk(JNum(acc), i)

(* A number: "0" may not be followed by another digit. *)
ParseNumber(text, i) ==
  IF text[i] = "0"
  THEN IF i + 1 <= Len(text) /\ IsDigit(text[i + 1]) THEN ParseFail
       ELSE ParseOk(JNum(0), i + 1)
  ELSE ParseDigits(text, i, 0)

RECURSIVE ParseValue(_, _), ParseElems(_, _, _), ParseMembers(_, _, _)
ParseValue(text, i0) ==
  LET i == SkipWs(text, i0) IN
  IF i > Len(text) THEN ParseFail
  ELSE CASE text[i] = "null"  -> ParseOk(JNull, i + 1)
         [] text[i] = "true"  -> ParseOk(JBool(TRUE), i + 1)
         [] text[i] = "false" -> ParseOk(JBool(FALSE), i + 1)
         [] IsDigit(text[i])  -> ParseNumber(text, i)
         [] text[i] = "\""    -> ParseStrBody(text, i + 1, <<>>)
         [] text[i] = "["     ->
              LET j == SkipWs(text, i + 1) IN
              IF j <= Len(text) /\ text[j] = "]" THEN ParseOk(JArr(<<>>), j + 1)
              ELSE ParseElems(text, j, <<>>)
         [] text[i] = "{"     ->
              LET j == SkipWs(text, i + 1) IN
              IF j <= Len(text) /\ text[j] = "}" THEN ParseOk(JObj(<<>>), j + 1)
              ELSE ParseMembers(text, j, <<>>)
         [] OTHER -> ParseFail

(* value ( , value )* ] *)
ParseElems(text, i, acc) ==
  LET r == ParseValue(text, i) IN
  IF ~r.ok THEN ParseFail
  ELSE LET j == SkipWs(text, r.pos) IN
       IF j > Len(text) THEN ParseFail
       ELSE IF text[j] = "]" THEN ParseOk(JArr(Append(acc, r.val)), j + 1)
       ELSE IF text[j] = "," THEN ParseElems(text, j + 1, Append(acc, r.val))
       ELSE ParseFail

(* string : value ( , string : value )* } *)
ParseMembers(text, i0, acc) ==
  LET i == SkipWs(text, i0) IN
  IF i > Len(text) \/ text[i] # "\"" THEN ParseFail
  ELSE LET key == ParseStrBody(text, i + 1, <<>>) IN
       IF ~key.ok THEN ParseFail
       ELSE LET c == SkipWs(text, key.pos) IN
            IF c > Len(text) \/ text[c] # ":" THEN ParseFail
            ELSE LET r == ParseValue(text, c + 1) IN
                 IF ~r.ok THEN ParseFail
                 ELSE LET j == SkipWs(text, r.pos)
                          members == MapInsert(acc, key.val.s, r.val)
                      IN IF j > Len(text) THEN ParseFail
                         ELSE IF text[j] = "}" THEN ParseOk(JObj(members), j + 1)
                         ELSE IF text[j] = "," THEN ParseMembers(text, j + 1, members)
                         ELSE ParseFail

(* from_str: one value, then only whitespace up to the end of the text. *)
from_str(text) ==
  LET r == ParseValue(text, 1) IN
  IF r.ok /\ SkipWs(text, r.pos) > Len(text) THEN r ELSE ParseFail

----------------------------------------------------------------------------
(* Bounds of the model: the downloads one process starts, in the          *)
(* specification of one run and in the specification with relaunches.     *)

MaxWorkers == 2

MaxWorkersRelaunch == 1

(* The file system.  A file is [exists, data]; data is its text. *)

Absent == [exists |-> FALSE, data |-> <<>>]

File(text) == [exists |-> TRUE, data |-> text]

(* data_dir.join("profile.json"), and the other paths a save dialog can return. *)
ProfilePath == "profile.json"

Paths == {ProfilePath, "a.bin", "b.bin"}

NoPath == "(cancelled)"

(* let start_url = "about:blank"; *)
start_url == <<"about:blank">>

(* include_str!("ui.js") *)
UI_JS == <<"ui.js">>

(* serde_json::json!({tabs: [{url: start_url, title: "New Tab"}], active: 0, *)
(* bookmarks: [], history: []})                                              *)
default_profile(url) ==
  JObj(<< Member(<<"active">>, JNum(0)),
          Member(<<"bookmarks">>, JArr(<<>>)),
          Member(<<"history">>, JArr(<<>>)),
          Member(<<"tabs">>,
                 JArr(<< JObj(<< Member(<<"title">>, JStr(<<"New Tab">>)),
                                 Member(<<"url">>, JStr(url)) >>) >>)) >>)

(* std::fs::read_to_string: Err for a missing file and for data that is not *)
(* valid UTF-8.                                                              *)
read_to_string(file) ==
  IF file.exists /\ \A i \in 1..Len(file.data) : file.data[i] # "<FF>"
  THEN [ok |-> TRUE, text |-> file.data]
  ELSE [ok |-> FALSE, text |-> <<>>]

(* profile_value of create_bootstrap_script: the parsed file, or the default *)
(* when the file cannot be read or does not parse.                           *)
LoadedProfile(file, url) ==
  LET r == read_to_string(file) IN
  IF r.ok
  THEN LET parsed == from_str(r.text) IN
       IF parsed.ok THEN parsed.val ELSE default_profile(url)
  ELSE default_profile(url)

ScriptHead == <<"try { window.__CB_INITIAL__ = ">>

ScriptTail == <<"; } catch(_e) {}">>

(* create_bootstrap_script: the script text around profile_literal. *)
create_bootstrap_script(file, url) ==
  ScriptHead \o to_string(LoadedProfile(file, url)) \o ScriptTail

InitScripts_UiFirst(bootstrap) == << UI_JS, bootstrap >>

(* The order of the two with_initialization_script calls. *)
InitScripts(bootstrap) == << bootstrap, UI_JS >>

(* The embedded content runs the initialization scripts in order in a fresh *)
(* global scope; the result is what the UI script finds in                  *)
(* window.__CB_INITIAL__ when it runs.                                      *)
Undefined == [t |-> "undefined", n |-> 0, s |-> <<>>, a |-> <<>>, m |-> <<>>]

NotRun == [t |-> "notrun", n |-> 0, s |-> <<>>, a |-> <<>>, m |-> <<>>]

RECURSIVE RunScripts(_, _, _)
RunScripts(scripts, global, seen) ==
  IF scripts = <<>> THEN seen
  ELSE LET sc == Head(scripts) IN
       IF sc = UI_JS THEN RunScripts(Tail(scripts), global, global)
       ELSE LET lit == SubSeq(sc, 2, Len(sc) - 1)
                val == from_str(lit)
            IN RunScripts(Tail(scripts),
                          IF val.ok THEN val.val ELSE global, seen)

----------------------------------------------------------------------------
(* Inputs: profile documents, IPC message bodies, URLs and their responses. *)

Tab(url, title) ==
  JObj(<< Member(<<"title">>, JStr(title)), Member(<<"url">>, JStr(url)) >>)

Doc(tabs, active) ==
  JObj(<< Member(<<"active">>, JNum(active)),
          Member(<<"bookmarks">>, JArr(<<>>)),
          Member(<<"history">>, JArr(<<>>)),
          Member(<<"tabs">>, JArr(tabs)) >>)

DocX == Doc(<< Tab(<<"https://x">>, <<"X">>) >>, 0)

(* A title that holds a quote and a backslash; the active index has two digits. *)
DocQ == Doc(<< Tab(<<"https://x">>, <<"say ", "\"", "hi", "\\">>) >>, 10)

Url1 == <<"https://h/1">>

Url2 == <<"https://h/2">>

(* The body the server sends for a URL. *)
Response(url) == IF url = Url1 THEN <<"x", "y">> ELSE <<"<FF>", "w">>

Msg(cmd, payload) ==
  to_string(JObj(<< Member(<<"cmd">>, cmd), Member(<<"payload">>, payload) >>))

MsgNoPayload(cmd) == to_string(JObj(<< Member(<<"cmd">>, cmd) >>))

DownloadPayload(url, file) ==
  JObj(<< Member(<<"file">>, JStr(file)), Member(<<"url">>, JStr(url)) >>)

(* The second body is { "payload":77, "cmd":"profile_save"}. *)
SaveBodies ==
  { Msg(JStr(<<"profile_save">>), DocQ),
    <<"{", " ", "\"", "payload", "\"", ":", "7", "7", ",", " ",
      "\"", "cmd", "\"", ":", "\"", "profile_save", "\"", "}">>,
    MsgNoPayload(JStr(<<"profile_save">>)) }

DownloadBodies ==
  { Msg(JStr(<<"download_start">>), DownloadPayload(Url1, <<"report.pdf">>)),
    Msg(JStr(<<"download_start">>), JObj(<< Member(<<"url">>, JStr(Url2)) >>)),
    Msg(JStr(<<"download_start">>), JObj(<< Member(<<"url">>, JNum(7)) >>)),
    MsgNoPayload(JStr(<<"download_start">>)) }

OtherBodies ==
  { <<"{">>,
    to_string(JNum(7)),
    to_string(JObj(<< Member(<<"payload">>, DocX) >>)),
    Msg(JNum(7), DocX),
    Msg(JStr(<<"frobnicate">>), DownloadPayload(Url1, <<"report.pdf">>)),
    Msg(JStr(<<"tabs_save">>), DocX) }

Bodies == SaveBodies \cup DownloadBodies \cup OtherBodies

(* The states in which a launch can find the files. *)
InitialProfiles ==
  { Absent,
    File(<<"<FF>">>),
    File(<<"{", "\"", "tabs", "\"", ":">>),
    File(<<"[", "7", "]">>),
    File(to_string(DocX)) }

(* a.bin exists before the first launch, b.bin does not. *)
OldData == <<"o", "l", "d", "!">>

InitialFs ==
  { [p \in Paths |-> IF p = ProfilePath THEN prof
                     ELSE IF p = "a.bin" THEN File(OldData) ELSE Absent] :
      prof \in InitialProfiles }

(* A message as the handler sees it: its body and                           *)
(* serde_json::from_str::<serde_json::Value>(&body).                        *)
Request(body) == [body |-> body, parsed |-> from_str(body)]

Requests == { Request(b) : b \in Bodies }

(* The messages of the runs that are followed across launches. *)
RelaunchRequests ==
  { Request(b) :
      b \in SaveBodies
            \cup { Msg(JStr(<<"download_start">>), DownloadPayload(Url1, <<"report.pdf">>)),
                   Msg(JStr(<<"tabs_save">>), DocX) } }

(* The text of every payload. *)
Payloads == { Get(r.parsed.val, <<"payload">>) : r \in Requests } \ {None}

PayloadText == [v \in Payloads |-> to_string(v)]

----------------------------------------------------------------------------
VARIABLES
  fs,            \* path -> file
  mainPc,        \* main thread: "wait" (event loop), "dialog" (in save_file), "exited"
  pending,       \* url and file of the download_start whose dialog is open
  workers,       \* the detached download threads of this process, a bag
  profile_value, \* the value create_bootstrap_script loaded
  initScripts,   \* the initialization scripts given to the webview, in order
  uiInitial,     \* window.__CB_INITIAL__ as the UI script found it
  profileReads,  \* reads of the profile file by this process
  last,          \* whether the last IPC message was "dropped", the last dialog
                 \* "cancelled", or the main thread last did something "other"
  lastPayload,   \* payload of the latest profile_save that carried one
  intact         \* the profile file holds what that profile_save wrote, and
                 \* nothing has written to it since

vars ==
  << fs, mainPc, pending, workers, profile_value, initScripts, uiInitial,
     profileReads, last, lastPayload, intact >>

NoPending == [url |-> <<>>, file |-> <<>>]

(* main() up to event_loop.run: the bootstrap script is built from the      *)
(* profile file and registered before UI_JS.                                *)
Boot(files) ==
  /\ fs = files
  /\ mainPc = "wait"
  /\ pending = NoPending
  /\ workers = EmptyBag
  /\ profile_value = LoadedProfile(files[ProfilePath], start_url)
  /\ initScripts = InitScripts(create_bootstrap_script(files[ProfilePath], start_url))
  /\ uiInitial = NotRun
  /\ profileReads = 1
  /\ last = "other"

(* A launch on any of the initial files. *)
InitAnyProfile ==
  /\ \E files \in InitialFs : Boot(files)
  /\ lastPayload = None
  /\ intact = FALSE

(* A launch without a profile file, or with the profile file of an earlier  *)
(* session.                                                                 *)
Init ==
  /\ \E files \in { f \in InitialFs :
                      f[ProfilePath] \in {Absent, File(to_string(DocX))} } : Boot(files)
  /\ lastPayload = None
  /\ intact = FALSE

----------------------------------------------------------------------------
(* The IPC handler. *)

(* validate_ipc_command: called nowhere. *)
validate_ipc_command(cmd, data) == cmd \in { <<"tabs_save">>, <<"tabs_load">> }

(* Variant: the commands validate_ipc_command accepts are saved as profiles. *)
HandlerFor_Validated(cmd) ==
  IF cmd = <<"profile_save">> \/ validate_ipc_command(cmd, JNull) THEN "profile_save"
  ELSE IF cmd = <<"download_start">> THEN "download_start"
  ELSE "none"

(* match cmd { "profile_save" => .., "download_start" => .., _ => {} } *)
HandlerFor(cmd) ==
  IF cmd = <<"profile_save">> THEN "profile_save"
  ELSE IF cmd = <<"download_start">> THEN "download_start"
  ELSE "none"

(* The handler a message reaches: if let Ok(v), if let Some(cmd), match. *)
Route(parsed) ==
  LET cmd == Get(parsed.val, <<"cmd">>)
  IN IF parsed.ok /\ IsStr(cmd) THEN HandlerFor(cmd.s) ELSE "none"

(* std::fs::write: File::create, then write_all.  A result is whether the   *)
(* file was opened and how many atoms were written.                         *)
WriteResults(text) ==
  { [opened |-> FALSE, written |-> 0] }
    \cup { [opened |-> TRUE, written |-> k] :
             k \in {0, Len(text) - 1, Len(text)} \cap 0..Len(text) }

(* Variant: the file is opened for appending. *)
fs_write_Append(file, text, res) ==
  IF res.opened THEN File(file.data \o SubSeq(text, 1, res.written)) ELSE file

fs_write(file, text, res) ==
  IF res.opened THEN File(SubSeq(text, 1, res.written)) ELSE file

(* let _ = std::fs::write(&profile_file, profile.to_string());  faulty says *)
(* whether the write can fail.                                              *)
ProfileSave(v, faulty) ==
  LET profile == Get(v, <<"payload">>) IN
  IF profile # None
  THEN LET text == PayloadText[profile] IN
       \E res \in IF faulty THEN WriteResults(text)
                  ELSE { [opened |-> TRUE, written |-> Len(text)] } :
         /\ fs' = [fs EXCEPT ![ProfilePath] = fs_write(@, text, res)]
         /\ lastPayload' = profile
         /\ intact' = (res.opened /\ res.written = Len(text))
         /\ last' = "other"
         /\ UNCHANGED << mainPc, pending, workers >>
  ELSE /\ last' = "other"
       /\ UNCHANGED << fs, mainPc, pending, workers, lastPayload, intact >>

(* url and file of a download_start payload, with their defaults. *)
DownloadRequest(p) ==
  [url  |-> IF IsStr(Get(p, <<"url">>)) THEN Get(p, <<"url">>).s ELSE <<>>,
   file |-> IF IsStr(Get(p, <<"file">>)) THEN Get(p, <<"file">>).s
            ELSE <<"download">>]

(* download_start up to the call of save_file(), which blocks the handler. *)
DownloadStart(v, cap) ==
  LET p == Get(v, <<"payload">>) IN
  IF p # None
  THEN /\ BagCardinality(workers) < cap
       /\ mainPc' = "dialog"
       /\ pending' = DownloadRequest(p)
       /\ last' = "other"
       /\ UNCHANGED << fs, workers, lastPayload, intact >>
  ELSE /\ last' = "other"
       /\ UNCHANGED << fs, mainPc, pending, workers, lastPayload, intact >>

Dropped ==
  /\ last' = "dropped"
  /\ UNCHANGED << fs, mainPc, pending, workers, lastPayload, intact >>

Handle(req, faulty, cap) ==
  /\ mainPc = "wait"
  /\ uiInitial # NotRun
  /\ LET h == Route(req.parsed) IN
       CASE h = "profile_save"   -> ProfileSave(req.parsed.val, faulty)
         [] h = "download_start" -> DownloadStart(req.parsed.val, cap)
         [] OTHER                -> Dropped
  /\ UNCHANGED << profile_value, initScripts, uiInitial, profileReads >>

IpcHandler(req) == Handle(req, FALSE, MaxWorkers)

(* save_file() returns: None => return; Some(path) => std::thread::spawn. *)
Spawned_Twice(req, path) ==
  SetToBag({ [url |-> req.url, path |-> path, pc |-> "get"] })
    (+) SetToBag({ [url |-> req.url, path |-> path, pc |-> "get"] })

Spawned(req, path) == SetToBag({ [url |-> req.url, path |-> path, pc |-> "get"] })

(* std::thread::spawn returns at once and the handler returns to the       *)
(* event loop.                                                             *)
AfterSpawn_Join == "join"

AfterSpawn == "wait"

DialogReturn(choice) ==
  /\ mainPc = "dialog"
  /\ pending' = NoPending
  /\ IF choice = NoPath
     THEN /\ mainPc' = "wait"
          /\ last' = "cancelled"
          /\ UNCHANGED workers
     ELSE /\ mainPc' = AfterSpawn
          /\ last' = "other"
          /\ workers' = workers (+) Spawned(pending, choice)
  /\ UNCHANGED << fs, profile_value, initScripts, uiInitial, profileReads,
                  lastPayload, intact >>

----------------------------------------------------------------------------
(* The download worker closure, one action per fallible call. *)

WorkerFrame ==
  UNCHANGED << mainPc, pending, profile_value, initScripts, uiInitial,
               profileReads, last, lastPayload >>

(* The threads that are at w. *)
Workers == BagToSet(workers)

(* One thread goes from w to w2. *)
Step(w, w2) == workers' = (workers (-) SetToBag({w})) (+) SetToBag({w2})

(* A write to path by a worker: the profile file is no longer what the     *)
(* latest profile_save wrote.                                               *)
Touch(path) == intact' = (intact /\ path # ProfilePath)

(* A worker whose closure returned Err: the thread is gone, its url with it. *)
Failed(w, stage) == [url |-> <<>>, path |-> w.path, pc |-> stage]

(* reqwest::blocking::get(&url)?: the empty URL is no URL, so it fails; a   *)
(* response of any status is a success.                                     *)
GetResults(url) == IF url = <<>> THEN {FALSE} ELSE {TRUE, FALSE}

(* Variant: an existing file is opened without truncating it. *)
FileCreate_NoTruncate(file) == IF file.exists THEN file ELSE File(<<>>)

(* std::fs::File::create(&save_path)?: creates or truncates. *)
FileCreate(file) == File(<<>>)

(* Variant: the file is created before the GET is issued. *)
WorkerGet_CreatesFirst(w) ==
  /\ w.pc = "get"
  /\ fs' = [fs EXCEPT ![w.path] = FileCreate(@)]
  /\ Touch(w.path)
  /\ \E ok \in GetResults(w.url) :
       Step(w, IF ok THEN [w EXCEPT !.pc = "create"] ELSE Failed(w, "failed_get"))
  /\ WorkerFrame

WorkerGet(w) ==
  /\ w.pc = "get"
  /\ \E ok \in GetResults(w.url) :
       Step(w, IF ok THEN [w EXCEPT !.pc = "create"] ELSE Failed(w, "failed_get"))
  /\ UNCHANGED << fs, intact >>
  /\ WorkerFrame

WorkerCreate(w) ==
  /\ w.pc = "create"
  /\ \/ /\ fs' = [fs EXCEPT ![w.path] = FileCreate(@)]
        /\ Touch(w.path)
        /\ Step(w, [w EXCEPT !.pc = "bytes"])
     \/ /\ Step(w, Failed(w, "failed_create"))
        /\ UNCHANGED << fs, intact >>
  /\ WorkerFrame

(* A write of bytes at offset 0 of a file that may have been written by     *)
(* someone else since this writer opened it.                                *)
WriteAt0(data, bytes) == bytes \o SubSeq(data, Len(bytes) + 1, Len(data))

(* resp.bytes()? reads the whole body into memory and touches no file; it   *)
(* either fails, or std::io::copy(&mut src, &mut file)? follows and writes  *)
(* k atoms of the body.                                                     *)
WorkerCopy(w) ==
  /\ w.pc = "bytes"
  /\ \/ /\ Step(w, Failed(w, "failed_bytes"))
        /\ UNCHANGED << fs, intact >>
     \/ LET body == Response(w.url) IN
        \E k \in {Len(body) - 1, Len(body)} :
          /\ fs' = [fs EXCEPT ![w.path] =
                      File(WriteAt0(@.data, SubSeq(body, 1, k)))]
          /\ Step(w, IF k = Len(body) THEN [w EXCEPT !.pc = "done"]
                     ELSE Failed(w, "failed_copy"))
          /\ Touch(w.path)
  /\ WorkerFrame

----------------------------------------------------------------------------
(* The event loop, the embedded content, and the next launch. *)

(* WindowEvent::CloseRequested => ControlFlow::Exit: the process ends and   *)
(* its threads with it.                                                     *)
CloseRequested ==
  /\ mainPc = "wait"
  /\ mainPc' = "exited"
  /\ workers' = EmptyBag
  /\ UNCHANGED << fs, pending, profile_value, initScripts, uiInitial,
                  profileReads, last, lastPayload, intact >>

(* Any other event: _ => {} *)
OtherEvent ==
  /\ mainPc = "wait"
  /\ UNCHANGED vars

(* The webview loads a page: the initialization scripts run in order. *)
PageLoad ==
  /\ mainPc # "exited"
  /\ uiInitial = NotRun
  /\ uiInitial' = RunScripts(initScripts, Undefined, Undefined)
  /\ UNCHANGED << fs, mainPc, pending, workers, profile_value, initScripts,
                  profileReads, last, lastPayload, intact >>

(* The program is started again on the files the last process left. *)
Launch ==
  /\ mainPc = "exited"
  /\ mainPc' = "wait"
  /\ pending' = NoPending
  /\ workers' = EmptyBag
  /\ profile_value' = LoadedProfile(fs[ProfilePath], start_url)
  /\ initScripts' = InitScripts(create_bootstrap_script(fs[ProfilePath], start_url))
  /\ uiInitial' = NotRun
  /\ profileReads' = 1
  /\ last' = "other"
  /\ UNCHANGED << fs, lastPayload, intact >>

(* One run of the program, from launch to the exit of the process, on a    *)
(* disk that never fails a write of the profile file.                      *)
Next ==
  \/ \E req \in Requests : IpcHandler(req)
  \/ \E choice \in Paths \cup {NoPath} : DialogReturn(choice)
  \/ \E w \in Workers : WorkerGet(w)
  \/ \E w \in Workers : WorkerCreate(w)
  \/ \E w \in Workers : WorkerCopy(w)
  \/ CloseRequested
  \/ OtherEvent
  \/ PageLoad

Spec == Init /\ [][Next]_vars

(* Several runs on the same profile file, the disk failing or not; the     *)
(* user saves downloads over the profile file or cancels.                  *)
NextRelaunch ==
  \/ \E req \in RelaunchRequests : Handle(req, TRUE, MaxWorkersRelaunch)
  \/ \E choice \in {ProfilePath, NoPath} : DialogReturn(choice)
  \/ \E w \in Workers : WorkerGet(w)
  \/ \E w \in Workers : WorkerCreate(w)
  \/ \E w \in Workers : WorkerCopy(w)
  \/ CloseRequested
  \/ OtherEvent
  \/ PageLoad
  \/ Launch

SpecRelaunch == InitAnyProfile /\ [][NextRelaunch]_vars

----------------------------------------------------------------------------
(* Notions the claims use. *)

(* The profile file is missing, unreadable, corrupt or not a JSON object. *)
BadProfileFile(file) ==
  LET r == read_to_string(file) IN
  \/ ~r.ok
  \/ ~from_str(r.text).ok
  \/ from_str(r.text).val.t # "obj"

(* A process that has just been launched: its content has not run yet, so  *)
(* no IPC message has been handled and the files are as the launch found   *)
(* them.                                                                   *)
JustLaunched == mainPc = "wait" /\ uiInitial = NotRun

(* The value the bootstrap script assigns to window.__CB_INITIAL__. *)
Injected == RunScripts(<< initScripts[1] >> \o << UI_JS >>, Undefined, Undefined)

(* The messages that are not valid JSON, have no string cmd, or name a cmd  *)
(* other than profile_save and download_start.                             *)
DroppedRequests ==
  { r \in Requests :
      \/ ~r.parsed.ok
      \/ ~IsStr(Get(r.parsed.val, <<"cmd">>))
      \/ Get(r.parsed.val, <<"cmd">>).s \notin { <<"profile_save">>, <<"download_start">> } }

(* w is the only worker of its path, and the path is not the profile file, *)
(* which the main thread writes.                                           *)
OwnPath(w) ==
  /\ w.path # ProfilePath
  /\ CopiesIn(w, workers) = 1
  /\ \A v \in Workers : v # w => v.path # w.path

(* The files of the first launch. *)
FirstFile(path) == IF path = "a.bin" THEN File(OldData) ELSE Absent

ProperPrefixes(body) == { SubSeq(body, 1, k) : k \in 0..(Len(body) - 1) }

(* The main thread can take the next window event and the next message. *)
MainCanProcess ==
  /\ ENABLED CloseRequested
  /\ ENABLED OtherEvent
  /\ ENABLED (\E req \in Requests : IpcHandler(req))

FetchInFlight == \E w \in Workers : w.pc = "get"

----------------------------------------------------------------------------
(* C1: at a launch, a profile file that is missing, unreadable, corrupt or *)
(* not a JSON object makes the builder load and inject the default         *)
(* document.                                                               *)
C1_BadProfileLoadsDefault ==
  (JustLaunched /\ BadProfileFile(fs[ProfilePath]))
    => /\ profile_value = default_profile(start_url)
       /\ Injected = default_profile(start_url)

(* C2: a launch that reads the file a profile_save wrote, nothing having   *)
(* written to the file since, loads and injects the payload of that        *)
(* profile_save.                                                           *)
C2_SaveThenLoad ==
  (JustLaunched /\ lastPayload # None /\ intact)
    => /\ profile_value = lastPayload
       /\ Injected = lastPayload

C2_Witness ==
  /\ JustLaunched
  /\ intact
  /\ lastPayload = DocQ
  /\ profile_value = DocQ

(* C3: the profile file holds exactly the payload of the latest            *)
(* profile_save that carried one.                                          *)
C3_FileIsLatestPayload ==
  lastPayload # None => fs[ProfilePath] = File(to_string(lastPayload))

(* C4: a message that is not valid JSON, has no string cmd or names        *)
(* another cmd than profile_save and download_start changes no file, opens *)
(* no dialog, spawns no worker, and the handler returns to the event loop. *)
C4_DroppedIsNoOp ==
  [][(\E req \in DroppedRequests : IpcHandler(req)) =>
       /\ UNCHANGED << fs, pending, workers, lastPayload, intact >>
       /\ mainPc' = "wait"]_vars

C4_Witness ==
  /\ last = "dropped"
  /\ DroppedRequests # {}
  /\ mainPc = "wait"

(* C5: a cancelled dialog spawns no worker and touches no file; a worker   *)
(* is spawned only when the open dialog returns a path, one worker, with   *)
(* the url of the command whose dialog it was.                             *)
C5_SpawnOnlyOnChosenPath ==
  [][/\ (mainPc = "dialog" /\ mainPc' # "dialog" /\ last' = "cancelled")
          => UNCHANGED << fs, workers >>
     /\ BagCardinality(workers') > BagCardinality(workers) =>
          /\ mainPc = "dialog"
          /\ last' # "cancelled"
          /\ fs' = fs
          /\ \E path \in Paths :
               workers' = workers (+) SetToBag({ [url |-> pending.url,
                                                  path |-> path, pc |-> "get"] })]_vars

C5_Witness ==
  /\ last = "cancelled"
  /\ mainPc = "wait"
  /\ BagCardinality(workers) = 1

(* C6: a worker that is done, and is the only writer of its path, has left *)
(* exactly its own response body there, whatever the other workers did.    *)
C6_OwnBodyAtOwnPath ==
  \A w \in Workers :
    (w.pc = "done" /\ OwnPath(w)) => fs[w.path] = File(Response(w.url))

C6_Witness ==
  \E w, v \in Workers :
    /\ w.pc = "done" /\ OwnPath(w)
    /\ v.pc = "failed_copy" /\ OwnPath(v)

(* C7, as claimed: while a save dialog is open or a fetch is in flight the *)
(* main thread can process the next window event and IPC message.          *)
C7_NeverBlocks ==
  (mainPc = "dialog" \/ FetchInFlight) => MainCanProcess

(* C7, amended: a fetch in flight does not block the main thread; an open  *)
(* save dialog does.                                                       *)
C7_FetchNeverBlocks ==
  /\ (FetchInFlight /\ mainPc # "dialog") => MainCanProcess
  /\ mainPc = "dialog" =>
       /\ ~ENABLED CloseRequested
       /\ ~ENABLED OtherEvent
       /\ ~ENABLED (\E req \in Requests : IpcHandler(req))

C7_Witness ==
  /\ FetchInFlight
  /\ mainPc = "wait"
  /\ last = "dropped"

(* C8: the profile is read once; the bootstrap script is registered before *)
(* the UI script; the UI script finds the value loaded at the launch in    *)
(* the global, and no later command changes it.                            *)
C8_InjectedOnceBeforeUi ==
  /\ profileReads = 1
  /\ Len(initScripts) = 2 /\ initScripts[2] = UI_JS
  /\ initScripts[1] = ScriptHead \o to_string(profile_value) \o ScriptTail
  /\ uiInitial # NotRun => uiInitial = profile_value
  /\ JustLaunched => profile_value = LoadedProfile(fs[ProfilePath], start_url)

C8_Witness ==
  /\ uiInitial = profile_value
  /\ lastPayload # None /\ intact /\ lastPayload # profile_value
  /\ \E w \in Workers : w.pc = "done"

(* C9: no download worker ever creates, truncates or writes the profile    *)
(* file.                                                                   *)
C9_WorkersNeverTouchProfile ==
  \A w \in Workers :
    w.pc \in {"bytes", "done", "failed_bytes", "failed_copy"}
      => w.path # ProfilePath

(* C10: the only writer of a path leaves the file as the launch found it   *)
(* until its GET has returned and File::create has run; from then on the   *)
(* file is empty until the copy, and a failed copy leaves a proper prefix  *)
(* of a body.  A worker with the empty URL never gets past the GET.        *)
C10_CreateOnlyAfterGet ==
  \A w \in Workers :
    /\ (w.url = <<>> /\ w.pc \notin
          {"failed_get", "failed_create", "failed_bytes", "failed_copy"})
         => w.pc = "get"
    /\ OwnPath(w) =>
         /\ w.pc \in {"get", "failed_get", "create", "failed_create"}
              => fs[w.path] = FirstFile(w.path)
         /\ w.pc \in {"bytes", "failed_bytes"}
              => fs[w.path] = File(<<>>)
         /\ w.pc = "failed_copy"
              => /\ fs[w.path].exists
                 /\ fs[w.path].data
                      \in ProperPrefixes(Response(Url1)) \cup ProperPrefixes(Response(Url2))

C10_Witness ==
  \E w, v \in Workers :
    /\ w.pc = "failed_copy" /\ w.path = "a.bin"
    /\ fs["a.bin"] = File(<<"x">>)
    /\ v.pc = "failed_get" /\ v.path = "b.bin"
    /\ fs["b.bin"] = Absent

====
